---- MODULE Spec2Model ----
(***************************************************************************)
(* Model of use-supabase-state: the hook useSupabaseRowState               *)
(* (src/src/useRowState.ts) bound to one component, together with the      *)
(* client registry (initSupabaseState / getSupabaseClient) and the parts   *)
(* of the store client the hook drives: point reads in flight, the list of *)
(* realtime channels, point updates in flight.                             *)
(*                                                                         *)
(* Rows, row ids, loggers and clients are opaque values; "null" stands for *)
(* null / undefined. Channel ids count from 1 and 0 is "no channel".       *)
(* Reads in flight are a bag: two reads of the same row whose closures     *)
(* hold the same isMounted are interchangeable. Of the point updates the   *)
(* model keeps the request a step sends and the number in flight: the      *)
(* completion handler reads nothing of the request.                        *)
(***************************************************************************)
EXTENDS Integers, Sequences, FiniteSets, Bags, TLC

\* ---- bounds of the model ----
MaxFetch   == 2   \* point reads issued in one behaviour
MaxChan    == 2   \* channels created by the hook in one behaviour
MaxSetRow  == 2   \* setRow calls in one behaviour that are to be persisted
MaxEval    == 3   \* evaluations of the hook with an absent rowId

Null    == "null"
Rows    == {"Ann", "Ann2"}
RowIds  == {"u1", "u2"}
Loggers == {"console.warn", "custom"}
Clients == {"client"}
Table   == "profiles"

\* updaters handed to setRow: a literal value, or a function of prev
Updaters == [kind : {"literal"}, arg : Rows \cup {Null}]
            \cup [kind : {"rename", "clear"}, arg : {Null}]

EventTypes == {"INSERT", "UPDATE", "DELETE"}

VARIABLES
  supabaseClient, \* init.ts: let supabaseClient
  moduleState,    \* evaluation of useRowState.ts: "unloaded" | "loaded" | "failed"
  supabase,       \* useRowState.ts: const supabase
  phase,          \* the component: "idle" | "mounted" | "unmounted"
  props,          \* arguments of the last evaluation: rowId, skip, autoSync, logger
  data,           \* useState: data
  isLoaded,       \* useState: isLoaded
  channelRef,     \* useRef: channelRef.current (0 = null)
  checkDeps,      \* dependencies the channel-check effect last ran with
  fetchDeps,      \* dependencies the fetch effect last ran with
  subDeps,        \* dependencies the subscription effect last ran with
  fetches,        \* point reads in flight, each with its closure's isMounted
  nextFetch,      \* point reads issued so far
  channels,       \* the client's channel list (getChannels()), in order
  nextChan,       \* channels created by the hook so far
  subChannel,     \* the channel captured by the live subscription effect
  updates,        \* point updates issued and not yet completed
  issued,         \* point updates issued so far
  sent,           \* the point update the step just taken issued, if any
  logged,         \* invalid-rowId warnings logged so far, and the kinds of
                  \* message the step just taken passed to the logger
  calls,          \* history: setRow calls made with autoSync on that
                  \* computed a non-null value
  feed,           \* history: the last event delivered since the subscription opened
  evals,          \* history: evaluations with an absent rowId, and unskipped
  detached,       \* history: unsubscribe() was called on the open subscription
  last            \* history: the step just taken and what it carried

vars == <<supabaseClient, moduleState, supabase, phase, props, data, isLoaded,
          channelRef, checkDeps, fetchDeps, subDeps, fetches, nextFetch,
          channels, nextChan, subChannel, updates, issued, sent, logged, calls,
          feed,
          evals, detached, last>>

registryVars == <<supabaseClient, moduleState, supabase>>
hookVars     == <<phase, props, data, isLoaded, channelRef, checkDeps,
                  fetchDeps, subDeps>>
storeVars    == <<fetches, nextFetch, channels, nextChan, subChannel, updates,
                  issued>>
histVars     == <<calls, feed, evals, detached>>

\* ---- the registry (init.ts) ----

\* getSupabaseClient(): the client, or "null" where the code throws
getSupabaseClient_unchecked == IF supabaseClient = Null THEN "client" ELSE supabaseClient
getSupabaseClient == supabaseClient

\* ---- the store client's channel list ----

\* useMemo(() => `realtime-${table}-${rowId}`)
channelKey(table, rowId) == <<"realtime", table, rowId>>

\* supabase.removeChannel(ch): the channel leaves the list; a second call
\* for the same channel finds nothing to remove
removeChannel_keep(chs, id) == chs
removeChannel_offByOne(chs, id) == SelectSeq(chs, LAMBDA c : c.id # id - 1)
removeChannel(chs, id) == SelectSeq(chs, LAMBDA c : c.id # id)

IsLive(id) == \E i \in 1..Len(channels) : channels[i].id = id

\* index of the first channel of chs whose topic is key, 0 when there is none
FirstMatch(chs, key) ==
  IF \E i \in 1..Len(chs) : chs[i].topic = key
  THEN CHOOSE i \in 1..Len(chs) :
         /\ chs[i].topic = key
         /\ \A j \in 1..(i - 1) : chs[j].topic # key
  ELSE 0

\* ch.subscribe() on a channel that was subscribed before
subscribe(ch) == [ch EXCEPT !.state = "resubscribed"]

\* getChannels().find(ch => ch.subscribe().topic === channelKey): find calls
\* the predicate, and so subscribe(), on every channel up to the first match
findSubscribing(chs, key) ==
  LET m == FirstMatch(chs, key)
      n == IF m = 0 THEN Len(chs) ELSE m
  IN  [i \in 1..Len(chs) |-> IF i <= n THEN subscribe(chs[i]) ELSE chs[i]]

\* supabase.channel(key).on(...).subscribe()
NewChannel(id, key) ==
  [id |-> id, topic |-> key, mine |-> TRUE, state |-> "subscribed"]

\* ---- reads in flight ----

\* one more copy of x in bag b
Put(b, x) == b (+) SetToBag({x})
\* one copy less of x in bag b
Take(b, x) == b (-) SetToBag({x})

\* () => { isMounted = false }, for the closure of every read in flight
\* (at most one of them still holds isMounted = true)
Unmounted_stillLive(b) == b
Unmounted(b) ==
  [f \in {[g EXCEPT !.isMounted = FALSE] : g \in BagToSet(b)} |->
     CopiesIn(f, b) + CopiesIn([f EXCEPT !.isMounted = TRUE], b)]

\* ---- the hook body ----

\* if (rowId === undefined || rowId === null)
EarlyReturn_never(rowId) == FALSE
EarlyReturn(rowId) == rowId = Null

\* if (!skip) logger(...): messages logged by one evaluation with no rowId
InvalidLogs_always(skip) == 1
InvalidLogs(skip) == IF ~skip THEN 1 ELSE 0

\* the tuple the hook returns: [data, setRow, isLoaded, unsubscribe]
value  == IF EarlyReturn(props.rowId) THEN Null ELSE data
loaded == IF EarlyReturn(props.rowId) THEN FALSE ELSE isLoaded

\* fetchRow after the await: setIsLoaded(true); if (row) setData(row)
fetchRowData_feedWins(row) == IF row # Null /\ feed = Null THEN row ELSE data
fetchRowData_nullOnMiss(row) == row
fetchRowData_keepLocal(row) == IF row # Null /\ data = Null THEN row ELSE data
fetchRowData(row) == IF row # Null THEN row ELSE data

fetchRowLoaded_onlyOnRow(row) == row # Null
fetchRowLoaded(row) == TRUE

\* the postgres_changes callback
callbackData_keepOnInsert(eventType, newRow) ==
  IF eventType = "UPDATE" THEN newRow
  ELSE IF eventType = "DELETE" THEN Null
  ELSE data
callbackData(eventType, newRow) ==
  IF eventType \in {"UPDATE", "INSERT"} THEN newRow
  ELSE IF eventType = "DELETE" THEN Null
  ELSE data

callbackLoaded_resetOnDelete(eventType) ==
  IF eventType \in {"UPDATE", "INSERT"} THEN TRUE ELSE FALSE
callbackLoaded(eventType) ==
  IF eventType \in {"UPDATE", "INSERT"} THEN TRUE ELSE isLoaded

\* the updaters: a literal; prev => ({ ...prev, name }) which yields the
\* other row; prev => null
Apply(u, prev) ==
  CASE u.kind = "literal" -> u.arg
    [] u.kind = "rename"  -> IF prev = "Ann" THEN "Ann2" ELSE "Ann"
    [] u.kind = "clear"   -> Null

\* setRow: typeof updater === 'function' ? updater(prev) : updater
setRowNext_ignorePrev(u) == Apply(u, Null)
setRowNext(u) == Apply(u, data)

\* if (autoSync && next): does this call issue the point update
setRowSyncs_always(autoSync, next) == TRUE
setRowSyncs(autoSync, next) == autoSync /\ next # Null

\* .then(({ error }) => { if (error) logger(...) }): data after the persist
persistData_rollback(ok) == IF ok THEN data ELSE Null
persistData(ok) == data

\* how often a completed update is issued again
persistRetries(ok) == 0

\* React re-runs an effect when one of its dependencies changed
depsChanged(old, new) == old # new

\* ---- history bookkeeping ----

\* the step just taken: the operation, the case it took, the row it carried
\* and whether it reached the hook's state
Step(op, kind, row, applied) ==
  [op |-> op, kind |-> kind, row |-> row, applied |-> applied]

\* what a step passes to the logger
Logs(kinds) == [logged EXCEPT !.step = kinds]
LogsInvalid(n) == [invalid |-> logged.invalid + n,
                   step |-> IF n > 0 THEN {"invalid"} ELSE {}]

\* ---- initial state ----

\* a channel other code registered and subscribed before the hook runs,
\* under the key the hook uses for row u1 (and so for no other row)
ExternalChannels ==
  <<[id |-> -1, topic |-> channelKey(Table, "u1"), mine |-> FALSE,
     state |-> "subscribed"]>>

\* arguments of an evaluation. skip is read only with an absent rowId,
\* autoSync and logger (but for the warning's sink) only with a present one
PropsSet == [rowId : {Null}, skip : BOOLEAN, autoSync : {TRUE},
             logger : {"console.warn"}]
            \cup [rowId : RowIds, skip : {FALSE}, autoSync : BOOLEAN,
                  logger : Loggers]

Init ==
  /\ supabaseClient = Null
  /\ moduleState = "unloaded"
  /\ supabase = Null
  /\ phase = "idle"
  /\ props = [rowId |-> Null, skip |-> FALSE, autoSync |-> TRUE,
              logger |-> "console.warn"]
  /\ data = Null
  /\ isLoaded = FALSE
  /\ channelRef = 0
  /\ checkDeps = <<channelKey(Table, Null), Null>>
  /\ fetchDeps = <<Null, Null>>
  /\ subDeps = <<Null, channelKey(Table, Null)>>
  /\ fetches = EmptyBag
  /\ nextFetch = 0
  /\ channels = ExternalChannels
  /\ nextChan = 0
  /\ subChannel = 0
  /\ updates = 0
  /\ issued = 0
  /\ sent = Null
  /\ logged = [invalid |-> 0, step |-> {}]
  /\ calls = 0
  /\ feed = Null
  /\ evals = [absent |-> 0, unskipped |-> 0]
  /\ detached = FALSE
  /\ last = Step("init", "", Null, FALSE)

\* ---- the registry ----

\* export function initSupabaseState(client)
\* (a call passing the client already stored changes nothing and is left out)
initSupabaseState(client) ==
  /\ supabaseClient # client
  /\ supabaseClient' = client
  /\ last' = Step("initSupabaseState", "", client, TRUE)
  /\ sent' = Null
  /\ logged' = Logs({})
  /\ UNCHANGED <<moduleState, supabase, hookVars, storeVars, histVars>>

\* evaluation of useRowState.ts: const supabase = getSupabaseClient().
\* A module whose evaluation threw stays failed.
LoadModule ==
  /\ moduleState = "unloaded"
  /\ IF getSupabaseClient = Null
     THEN moduleState' = "failed" /\ supabase' = supabase
     ELSE moduleState' = "loaded" /\ supabase' = getSupabaseClient
  /\ last' = Step("LoadModule", "", Null, getSupabaseClient # Null)
  /\ sent' = Null
  /\ logged' = Logs({})
  /\ UNCHANGED <<supabaseClient, hookVars, storeVars, histVars>>

\* ---- one evaluation of useSupabaseRowState(table, rowId, options) ----

\* the early return: logs unless skip, calls no hook, runs no effect
ShortCircuit(p) ==
  /\ evals.absent < MaxEval
  /\ logged' = LogsInvalid(InvalidLogs(p.skip))
  /\ evals' = [absent |-> evals.absent + 1,
               unskipped |-> evals.unskipped + (IF p.skip THEN 0 ELSE 1)]
  /\ UNCHANGED <<data, isLoaded, channelRef, checkDeps, fetchDeps, subDeps,
                 storeVars, calls, feed, detached>>

\* the hooks and, after the commit, the effects whose dependencies changed:
\* first the cleanups of those effects, then their bodies in source order.
\* table, schema, primaryKey and select do not vary here.
RunEffects(p) ==
  LET key      == channelKey(Table, p.rowId)
      runCheck == depsChanged(checkDeps, <<key, p.logger>>)
      runFetch == depsChanged(fetchDeps, <<p.rowId, p.logger>>)
      runSub   == depsChanged(subDeps, <<p.rowId, key>>)
      \* cleanups: isMounted = false; supabase.removeChannel(channel)
      f1 == IF runFetch THEN Unmounted(fetches) ELSE fetches
      c1 == IF runSub THEN removeChannel(channels, subChannel) ELSE channels
      \* effect 1: look for an existing channel under the key
      found == runCheck /\ FirstMatch(c1, key) # 0
      c2 == IF runCheck THEN findSubscribing(c1, key) ELSE c1
      \* effect 2: fetchRow()
      f2 == IF runFetch
            THEN Put(f1, [rowId |-> p.rowId, isMounted |-> TRUE])
            ELSE f1
      \* effect 3: remove channelRef.current, open and subscribe a channel
      c3 == IF runSub
            THEN Append(removeChannel(c2, channelRef),
                        NewChannel(nextChan + 1, key))
            ELSE c2
  IN  /\ runFetch => nextFetch < MaxFetch
      /\ runSub => nextChan < MaxChan
      /\ logged' = Logs(IF found THEN {"duplicate"} ELSE {})
      /\ checkDeps' = IF runCheck THEN <<key, p.logger>> ELSE checkDeps
      /\ fetchDeps' = IF runFetch THEN <<p.rowId, p.logger>> ELSE fetchDeps
      /\ subDeps' = IF runSub THEN <<p.rowId, key>> ELSE subDeps
      /\ fetches' = f2
      /\ nextFetch' = IF runFetch THEN nextFetch + 1 ELSE nextFetch
      /\ channels' = c3
      /\ nextChan' = IF runSub THEN nextChan + 1 ELSE nextChan
      /\ channelRef' = IF runSub THEN nextChan + 1 ELSE channelRef
      /\ subChannel' = IF runSub THEN nextChan + 1 ELSE subChannel
      /\ feed' = IF runSub THEN Null ELSE feed
      /\ detached' = IF runSub THEN FALSE ELSE detached
      /\ UNCHANGED <<data, isLoaded, updates, issued, calls, evals>>

useSupabaseRowState(p) ==
  /\ IF EarlyReturn(p.rowId) THEN ShortCircuit(p) ELSE RunEffects(p)
  /\ props' = p

\* the component mounts: the first evaluation
Mount(p) ==
  /\ moduleState = "loaded"
  /\ phase = "idle"
  /\ phase' = "mounted"
  /\ useSupabaseRowState(p)
  /\ last' = Step("Mount", "", Null, TRUE)
  /\ sent' = Null
  /\ UNCHANGED registryVars

\* a later evaluation that calls the same hooks as the one before: new
\* arguments from the parent, or the same ones after a state update
Rerender(p) ==
  /\ phase = "mounted"
  /\ EarlyReturn(p.rowId) = EarlyReturn(props.rowId)
  /\ useSupabaseRowState(p)
  /\ last' = Step("Rerender", "", Null, TRUE)
  /\ sent' = Null
  /\ UNCHANGED <<registryVars, phase>>

\* the cleanups of the effects that ran: () => { isMounted = false } and
\* () => { supabase.removeChannel(channel) }
Cleanup_keepsChannel ==
  /\ fetches' = Unmounted(fetches)
  /\ UNCHANGED <<data, isLoaded, channelRef, checkDeps, fetchDeps, subDeps,
                 nextFetch, channels, nextChan, subChannel, updates, issued>>
Cleanup ==
  /\ fetches' = Unmounted(fetches)
  /\ channels' = removeChannel(channels, subChannel)
  /\ UNCHANGED <<data, isLoaded, channelRef, checkDeps, fetchDeps, subDeps,
                 nextFetch, nextChan, subChannel, updates, issued>>

\* the consumer unmounts the component
Unmount ==
  /\ phase = "mounted"
  /\ phase' = "unmounted"
  /\ Cleanup
  /\ last' = Step("Unmount", "", Null, TRUE)
  /\ sent' = Null
  /\ logged' = Logs({})
  /\ feed' = Null
  /\ detached' = FALSE
  /\ UNCHANGED <<registryVars, props, calls, evals>>

\* an evaluation whose rowId went from absent to present or back calls a
\* different number of hooks: React rejects the render and unmounts the
\* component. Going to absent, the warning is logged before the return.
RenderError(p) ==
  /\ phase = "mounted"
  /\ EarlyReturn(p.rowId) # EarlyReturn(props.rowId)
  /\ phase' = "unmounted"
  /\ Cleanup
  /\ IF EarlyReturn(p.rowId)
     THEN /\ evals.absent < MaxEval
          /\ logged' = LogsInvalid(InvalidLogs(p.skip))
          /\ evals' = [absent |-> evals.absent + 1,
                       unskipped |-> evals.unskipped + (IF p.skip THEN 0 ELSE 1)]
     ELSE logged' = Logs({}) /\ evals' = evals
  /\ last' = Step("RenderError", "", Null, TRUE)
  /\ sent' = Null
  /\ feed' = Null
  /\ detached' = FALSE
  /\ UNCHANGED <<registryVars, props, calls>>

\* ---- asynchronous completions ----

\* the awaited point read f completes: with a row, or (row = Null) with an
\* error, which is what .single() reports for no row as well
fetchRow(f, row) ==
  /\ BagIn(f, fetches)
  /\ fetches' = Take(fetches, f)
  /\ IF ~f.isMounted
     THEN /\ logged' = Logs({})
          /\ UNCHANGED <<data, isLoaded>>
     ELSE /\ logged' = Logs(IF row = Null THEN {"fetch"} ELSE {})
          /\ isLoaded' = fetchRowLoaded(row)
          /\ data' = fetchRowData(row)
  /\ last' = IF f.isMounted
             THEN Step("fetchRow", IF row = Null THEN "error" ELSE "row", row, TRUE)
             ELSE Step("fetchRow", "discarded", Null, FALSE)
  /\ sent' = Null
  /\ UNCHANGED <<registryVars, phase, props, channelRef, checkDeps, fetchDeps,
                 subDeps, nextFetch, channels, nextChan, subChannel, updates,
                 issued, histVars>>

\* the feed emits an event for a channel the hook created; the client hands
\* it to the callback only while the channel is in its list
Delivers(id) == IsLive(id)

FeedEvent(id, eventType, newRow) ==
  /\ id \in 1..nextChan
  /\ LET applied == Delivers(id) /\ phase = "mounted"
     IN  /\ IF applied
            THEN /\ data' = callbackData(eventType, newRow)
                 /\ isLoaded' = callbackLoaded(eventType)
                 /\ feed' = IF eventType = "DELETE" THEN "deleted" ELSE newRow
            ELSE UNCHANGED <<data, isLoaded, feed>>
         /\ last' = IF applied THEN Step("FeedEvent", eventType, newRow, TRUE)
                    ELSE Step("FeedEvent", "dropped", Null, FALSE)
  /\ logged' = Logs({})
  /\ sent' = Null
  /\ UNCHANGED <<registryVars, phase, props, channelRef, checkDeps, fetchDeps,
                 subDeps, storeVars, calls, evals, detached>>

\* ---- the returned setter and unsubscribe ----

\* setRow(updater): setData(prev => next), and the fire-and-forget update
setRow(u) ==
  /\ phase = "mounted"
  /\ ~EarlyReturn(props.rowId)
  /\ calls < MaxSetRow
  /\ LET next == setRowNext(u)
     IN  /\ data' = next
         /\ sent' = IF setRowSyncs(props.autoSync, next)
                    THEN [table |-> Table, rowId |-> props.rowId, value |-> next]
                    ELSE Null
         /\ updates' = IF setRowSyncs(props.autoSync, next)
                       THEN updates + 1 ELSE updates
         /\ issued' = IF setRowSyncs(props.autoSync, next)
                      THEN issued + 1 ELSE issued
         /\ calls' = calls + (IF props.autoSync /\ Apply(u, data) # Null
                               THEN 1 ELSE 0)
  /\ last' = Step("setRow", "", Apply(u, data), TRUE)
  /\ logged' = Logs({})
  /\ UNCHANGED <<registryVars, phase, props, isLoaded, channelRef, checkDeps,
                 fetchDeps, subDeps, fetches, nextFetch, channels, nextChan,
                 subChannel, feed, evals, detached>>

\* createNoopSetter(): the setter returned with an absent rowId
createNoopSetter(u) ==
  /\ phase = "mounted"
  /\ EarlyReturn(props.rowId)
  /\ last' = Step("createNoopSetter", "", Null, FALSE)
  /\ sent' = Null
  /\ logged' = Logs({})
  /\ UNCHANGED <<registryVars, hookVars, storeVars, histVars>>

\* a pending update completes; an error is logged, nothing else happens
persist(ok) ==
  /\ updates > 0
  /\ updates' = updates - 1 + persistRetries(ok)
  /\ issued' = issued + persistRetries(ok)
  /\ sent' = Null
  /\ logged' = Logs(IF ok THEN {} ELSE {"sync"})
  /\ data' = persistData(ok)
  /\ last' = Step("persist", IF ok THEN "ok" ELSE "error", Null, TRUE)
  /\ UNCHANGED <<registryVars, phase, props, isLoaded, channelRef, checkDeps,
                 fetchDeps, subDeps, fetches, nextFetch, channels, nextChan,
                 subChannel, histVars>>

\* unsubscribe(): if (channelRef.current) supabase.removeChannel(...)
unsubscribe ==
  /\ phase = "mounted"
  /\ ~EarlyReturn(props.rowId)
  /\ channels' = IF channelRef # 0 THEN removeChannel(channels, channelRef)
                 ELSE channels
  /\ detached' = TRUE
  /\ last' = Step("unsubscribe", "", Null, TRUE)
  /\ sent' = Null
  /\ logged' = Logs({})
  /\ UNCHANGED <<registryVars, hookVars, fetches, nextFetch, nextChan,
                 subChannel, updates, issued, calls, feed, evals>>

\* () => {}: the unsubscribe returned with an absent rowId
noopUnsubscribe ==
  /\ phase = "mounted"
  /\ EarlyReturn(props.rowId)
  /\ last' = Step("noopUnsubscribe", "", Null, FALSE)
  /\ sent' = Null
  /\ logged' = Logs({})
  /\ UNCHANGED <<registryVars, hookVars, storeVars, histVars>>

\* ---- the specification ----

Next ==
  \/ \E c \in Clients : initSupabaseState(c)
  \/ LoadModule
  \/ \E p \in PropsSet : Mount(p)
  \/ \E p \in PropsSet : Rerender(p)
  \/ \E p \in PropsSet : RenderError(p)
  \/ Unmount
  \/ \E f \in BagToSet(fetches) :
       \E row \in (IF f.isMounted THEN Rows \cup {Null} ELSE {Null}) :
         fetchRow(f, row)
  \/ \E id \in 1..nextChan :
       \E e \in (IF Delivers(id) THEN EventTypes ELSE {"DELETE"}) :
         \E r \in (IF Delivers(id) /\ e # "DELETE" THEN Rows ELSE {Null}) :
           FeedEvent(id, e, r)
  \/ \E u \in Updaters : setRow(u)
  \/ \E u \in Updaters : createNoopSetter(u)
  \/ \E ok \in BOOLEAN : persist(ok)
  \/ unsubscribe
  \/ noopUnsubscribe

Spec == Init /\ [][Next]_vars

\* ---- the claims ----

\* the step into the next state is a read completing on a mounted closure
ReadApplied == last'.op = "fetchRow" /\ last'.applied
\* the step into the next state is an event handed to the callback
EventApplied == last'.op = "FeedEvent" /\ last'.applied

\* C1 (as stated): when an insert/update event E was delivered before the
\* read resolves and the value is E.newRow, a read that then resolves with a
\* different row R is discarded: the value stays E.newRow and loaded is true.
C1_ReadDiscardedAfterEvent ==
  [][(feed \in Rows /\ value = feed /\ ReadApplied
        /\ last'.row \in Rows /\ last'.row # feed)
     => (value' = feed /\ loaded')]_vars

\* C1 (amended): in that case the read is not discarded: after it resolves
\* with row R the value is R, whatever the event delivered, and loaded is true.
C1_ReadOverwritesEvent ==
  [][(feed \in Rows /\ value = feed /\ ReadApplied
        /\ last'.row \in Rows /\ last'.row # feed)
     => (value' = last'.row /\ loaded')]_vars

C1_Witness ==
  /\ last.op = "fetchRow" /\ last.applied /\ last.row \in Rows
  /\ feed \in Rows /\ feed # last.row
  /\ value = last.row /\ loaded

\* C2 (as stated): once unsubscribe() was called, and until a new
\* subscription is opened, no step but a setRow call changes value or loaded.
C2_DetachFreezesState ==
  [][(detached /\ detached' /\ last'.op # "setRow")
     => (value' = value /\ loaded' = loaded)]_vars

\* C2 (amended): once unsubscribe() was called, and until a new subscription
\* is opened, no change-feed delivery changes value or loaded: they change
\* only by a setRow call or by the completion of a read still in flight.
C2_DetachStopsFeed ==
  [][(detached /\ detached')
     => \/ (value' = value /\ loaded' = loaded)
        \/ last'.op = "setRow"
        \/ ReadApplied]_vars

C2_Witness ==
  /\ phase = "mounted" /\ detached
  /\ last.op = "FeedEvent" /\ last.kind = "dropped"
  /\ nextFetch > BagCardinality(fetches)

\* C3: a read that succeeds with row R when no event was delivered before it
\* leaves value = R and loaded = true.
C3_ReadSetsValue ==
  [][(feed = Null /\ ReadApplied /\ last'.row \in Rows)
     => (value' = last'.row /\ loaded')]_vars

C3_Witness ==
  /\ last.op = "fetchRow" /\ last.applied /\ last.row \in Rows
  /\ feed = Null /\ value = last.row /\ loaded

\* C4: every insert or update event handed to the callback of a live handle
\* sets value to its newRow and loaded to true, also after the read resolved.
C4_EventSetsValue ==
  [][(EventApplied /\ last'.kind \in {"INSERT", "UPDATE"})
     => (value' = last'.row /\ loaded')]_vars

C4_Witness ==
  /\ last.op = "FeedEvent" /\ last.kind = "UPDATE" /\ last.applied
  /\ nextFetch = 1 /\ fetches = EmptyBag
  /\ value = last.row /\ loaded

\* C5: a read that fails or finds no row on a live handle sets loaded and
\* leaves value as it was.
C5_FailedReadKeepsValue ==
  [][(ReadApplied /\ last'.kind = "error")
     => (value' = value /\ loaded')]_vars

C5_Witness ==
  /\ last.op = "fetchRow" /\ last.applied /\ last.kind = "error"
  /\ value \in Rows /\ loaded

\* C6: after a setRow call the value is the updater's result on the value
\* just before the call, and the completion of a persist, successful or
\* not, never changes value or loaded.
C6_SetRowIsOptimistic ==
  [][/\ last'.op = "setRow" => value' = last'.row
     /\ last'.op = "persist" => (value' = value /\ loaded' = loaded)]_vars

C6_Witness ==
  /\ last.op = "persist" /\ last.kind = "error"
  /\ value \in Rows /\ issued = 2

\* C7: a setRow call issues one point update for the current row carrying
\* the computed value when autoSync is on and the value is not null, and
\* none otherwise; a completion issues none and a failure is logged; so the
\* updates issued are as many as the qualifying calls.
C7_OneUpdatePerQualifyingCall ==
  /\ [](issued = calls)
  /\ [][/\ last'.op = "setRow" =>
             IF props.autoSync /\ last'.row # Null
             THEN /\ sent' = [table |-> Table, rowId |-> props.rowId,
                              value |-> last'.row]
                  /\ issued' = issued + 1
             ELSE sent' = Null /\ issued' = issued
        /\ last'.op = "persist" =>
             /\ sent' = Null /\ issued' = issued
             /\ last'.kind = "error" => "sync" \in logged'.step]_vars

C7_Witness ==
  /\ last.op = "persist" /\ last.kind = "error"
  /\ issued = 2 /\ calls = 2 /\ updates = 1

\* C8: with an absent rowId the handle shows value null and loaded false,
\* and no read, no channel and no update was ever issued, whatever calls of
\* the setter and of unsubscribe were made.
C8_AbsentRowIdInert ==
  (phase = "mounted" /\ props.rowId = Null)
  => /\ value = Null /\ ~loaded
     /\ nextFetch = 0 /\ fetches = EmptyBag
     /\ nextChan = 0 /\ channels = ExternalChannels
     /\ issued = 0 /\ updates = 0 /\ sent = Null

C8_Witness ==
  /\ phase = "mounted" /\ props.rowId = Null
  /\ last.op \in {"createNoopSetter", "noopUnsubscribe"}
  /\ evals.absent >= 2

\* C9 (as stated): with an absent rowId and skip false one diagnostic is
\* logged however often the binding is evaluated, and none with skip true.
C9_OneDiagnostic ==
  (phase = "mounted" /\ props.rowId = Null)
  => /\ evals.unskipped = evals.absent => logged.invalid = 1
     /\ evals.unskipped = 0 => logged.invalid = 0

\* C9 (amended): every evaluation with an absent rowId logs one diagnostic
\* when skip is false and none when skip is true: the diagnostics logged
\* are as many as the evaluations with skip false.
C9_OneDiagnosticPerEvaluation ==
  logged.invalid = evals.unskipped

C9_Witness ==
  /\ phase = "mounted" /\ props.rowId = Null
  /\ evals.absent = 3 /\ evals.unskipped = 2 /\ logged.invalid = 2

\* C10: a delete event handed to the callback sets value to null and leaves
\* loaded as it was.
C10_DeleteKeepsLoaded ==
  [][(EventApplied /\ last'.kind = "DELETE")
     => (value' = Null /\ loaded' = loaded)]_vars

C10_Witness ==
  /\ last.op = "FeedEvent" /\ last.kind = "DELETE" /\ last.applied
  /\ value = Null /\ loaded

\* C11: getSupabaseClient() fails while no client was registered and returns
\* the client registered by initSupabaseState afterwards; a hook whose module
\* resolved the client before any registration failed with that error, was
\* never evaluated and issued no read and no channel; whatever the hook did,
\* it did with a registered client.
C11_UninitializedFailsFast ==
  /\ supabaseClient = Null => getSupabaseClient = Null
  /\ last.op = "initSupabaseState" =>
       (last.row \in Clients /\ getSupabaseClient = last.row)
  /\ moduleState = "failed" =>
       /\ phase = "idle" /\ supabase = Null
       /\ nextFetch = 0 /\ fetches = EmptyBag
       /\ nextChan = 0 /\ channels = ExternalChannels
  /\ (phase # "idle" \/ nextFetch > 0 \/ nextChan > 0) =>
       (moduleState = "loaded" /\ supabase \in Clients
          /\ supabase = getSupabaseClient)

C11_Witness ==
  /\ moduleState = "failed" /\ last.op = "initSupabaseState"
  /\ getSupabaseClient \in Clients /\ phase = "idle" /\ nextFetch = 0

\* the channels the hook created that are in the client's list
LiveOwn == {i \in 1..Len(channels) : channels[i].mine}

\* C12: once the component is unmounted, no channel the hook created is in
\* the client's list, whatever rowId changes, re-renders and unsubscribe()
\* calls came before.
C12_UnmountReleasesChannels ==
  phase = "unmounted" => LiveOwn = {}

C12_Witness ==
  /\ phase = "unmounted" /\ last.op = "Unmount"
  /\ nextChan = 2 /\ LiveOwn = {}

\* the step into the next state evaluates the hook with another present
\* rowId than the evaluation before
IdentityChange ==
  /\ last'.op = "Rerender"
  /\ props.rowId \in RowIds /\ props'.rowId \in RowIds
  /\ props'.rowId # props.rowId

\* C13: when the rowId changes to another present rowId, the state shown
\* starts afresh: value is null and loaded is false right after the change
\* (and stays so until the new row's read or an event for it arrives); the
\* value and loaded flag of the row before are not shown under the new one.
C13_IdentityChangeRestarts ==
  [][IdentityChange => (value' = Null /\ ~loaded')]_vars

\* C14: for one table and rowId the hook issues one read and opens one
\* channel: the first evaluation issues one of each, and no later evaluation
\* with the same rowId issues a read or opens a channel, whatever options or
\* logger it passes and whether a state update of the hook caused it.
C14_OneReadOneSubscription ==
  [][/\ (last'.op = "Mount" /\ props'.rowId \in RowIds) =>
          (nextFetch' = nextFetch + 1 /\ nextChan' = nextChan + 1)
     /\ (last'.op = "Rerender" /\ props.rowId \in RowIds
            /\ props'.rowId = props.rowId) =>
          (nextFetch' = nextFetch /\ nextChan' = nextChan)]_vars

\* C15: in every state at most one channel the hook created is in the
\* client's list; and when the rowId changes, the channel of the row before
\* is removed before the new one is opened: what the effect's cleanup leaves
\* holds no channel of the hook, and afterwards the only one is the new one.
C15_OneChannelReleaseFirst ==
  /\ [](Cardinality(LiveOwn) <= 1)
  /\ [][IdentityChange =>
          LET released == removeChannel(channels, subChannel)
          IN  /\ \A i \in 1..Len(released) : ~released[i].mine
              /\ nextChan' = nextChan + 1
              /\ LiveOwn' = {Len(channels')}
              /\ channels'[Len(channels')].id = nextChan'
              /\ channelRef' = nextChan']_vars

C15_Witness ==
  /\ last.op = "Rerender" /\ nextChan = 2 /\ props.rowId \in RowIds
  /\ LiveOwn = {Len(channels)} /\ channels[Len(channels)].id = 2

\* C16: after a delete event was handed to the callback loaded is true, also
\* when the delete comes before the read resolved and before any other event.
C16_DeleteImpliesLoaded ==
  [][(EventApplied /\ last'.kind = "DELETE") => loaded']_vars

\* C17: while the hook is bound to one row, loaded never goes from true to
\* false, whatever step is taken (read completion, event, setRow,
\* unsubscribe, re-render, unmount); so once loaded, the state in which
\* value is null and loaded is false does not come back.
C17_LoadedMonotonic ==
  [][(loaded /\ ~IdentityChange)
     => (loaded' /\ ~(value' = Null /\ ~loaded'))]_vars

C17_Witness ==
  /\ last.op = "setRow" /\ last.row = Null
  /\ phase = "mounted" /\ value = Null /\ loaded

\* the step into the next state carries an update of the value: a read
\* that returned a row, an event handed to the callback, or a setRow call
UpdateApplied ==
  \/ ReadApplied /\ last'.kind = "row"
  \/ EventApplied
  \/ last'.op = "setRow"

\* C18: the value is the payload of the update applied last, whichever of
\* the sources it came from: a read that returned a row, an insert or update
\* event (its new row), a delete event (null) or a setRow call (the computed
\* value) sets the value to its payload, and no other step on the same row
\* changes the value.
C18_LastUpdateWins ==
  [][IF UpdateApplied THEN value' = last'.row
     ELSE (IdentityChange \/ value' = value)]_vars

C18_Witness ==
  /\ last.op = "fetchRow" /\ last.kind = "row" /\ last.applied
  /\ feed \in Rows /\ feed # last.row /\ calls > 0
  /\ value = last.row

\* C19: a read issued for another rowId than the one the hook is now bound
\* to, or completing after the component unmounted, is discarded: its
\* completion changes neither value nor loaded and logs nothing.
C19_StaleReadDiscarded ==
  [][\A f \in BagToSet(fetches) :
       (/\ last'.op = "fetchRow" /\ fetches' = Take(fetches, f)
        /\ (f.rowId # props.rowId \/ phase = "unmounted"))
       => (/\ value' = value /\ loaded' = loaded
           /\ logged'.step = {} /\ ~last'.applied)]_vars

C19_Witness ==
  /\ last.op = "fetchRow" /\ last.kind = "discarded"
  /\ phase = "mounted" /\ nextChan = 2 /\ nextFetch = 2
  /\ BagIn([rowId |-> props.rowId, isMounted |-> TRUE], fetches)
  /\ value = Null /\ ~loaded

\* C20: the check for a channel already registered under the key has no
\* effect on the channels: an evaluation of the hook calls subscribe() on no
\* channel that was in the client's list, every channel that is in the list
\* before and after is as it was; the check may only log the warning.
C20_CheckIsSideEffectFree ==
  [][(last'.op \in {"Mount", "Rerender"}) =>
       \A i \in 1..Len(channels) : \A j \in 1..Len(channels') :
         channels'[j].id = channels[i].id => channels'[j] = channels[i]]_vars

====
